---- MODULE Spec2Model ----
(***************************************************************************)
(* A model of the IRC server kernel of src/ircd.cpp: the entity tables for *)
(* clients, channels and peer servers, the user counters, the broadcast    *)
(* fan-out (user_bcast, user_bcast_butone, sbcast, sbcast_butone), the     *)
(* outbound connector (call_remote_servers), the netsplit sweep            *)
(* (kill_remote_clients_on) and the netburst encoder (begin_netburst).     *)
(*                                                                         *)
(* Handles are the integers 0 .. size-1 of a table; a table is a sequence, *)
(* the entity with handle h being its element h+1.  A freed slot keeps its *)
(* place in the table (size() is one past the highest slot ever used) and  *)
(* is marked not alive.                                                    *)
(*                                                                         *)
(* counters holds the user and channel gauges (STAT_TOTAL_CONNS, which     *)
(* only grows and is read by no operation here, is left out).  cap is the  *)
(* capacity of the three tables, fixed at construction.  last records what *)
(* the last handler did that an observer can see: the writes of a          *)
(* broadcast, the clients killed by a netsplit, the connect attempts of a  *)
(* connector tick, the lines of a netburst.                                *)
(***************************************************************************)
EXTENDS Integers, Sequences, FiniteSets, TLC

VARIABLES clients, channels, servers, servers_hash, counters, cap, last

vars == <<clients, channels, servers, servers_hash, counters, cap, last>>

(***************************************************************************)
(* Bounds of the model.                                                    *)
(***************************************************************************)
MaxClients == 3
MaxChannels == 2
MaxServers == 3
MaxSplitServers == 1
MaxBurstClients == 2
MaxBurstChannels == 2
MaxBurstServers == 1
MaxFmtClients == 2
MaxFmtChannels == 1
MaxTail == 1
MaxOver == 2

Lines == {"m1", "m2"}

(***************************************************************************)
(* The entity tables.                                                      *)
(***************************************************************************)
Handles(tab) == 0 .. (Len(tab) - 1)

At(tab, h) == tab[h + 1]

Put(tab, h, v) == [tab EXCEPT ![h + 1] = v]

\* create(): the lowest free slot, or a new slot at the end of the table.
create_slot(tab) ==
  IF \E h \in Handles(tab) : ~At(tab, h).alive
  THEN CHOOSE h \in Handles(tab) :
         /\ ~At(tab, h).alive
         /\ \A g \in Handles(tab) : g < h => At(tab, g).alive
  ELSE Len(tab)

Store(tab, h, v) == IF h = Len(tab) THEN Append(tab, v) ELSE Put(tab, h, v)

NO_SUCH_SERVER == -1

\* The handle local clients carry as their owning server: this server's own
\* id, which is no slot of the peer table.
SelfId == MaxServers

RECURSIVE SortedSeq(_)
SortedSeq(S) ==
  IF S = {} THEN <<>>
  ELSE LET m == CHOOSE x \in S : \A y \in S : x <= y
       IN  <<m>> \o SortedSeq(S \ {m})

RECURSIVE Concat(_)
Concat(ss) == IF ss = <<>> THEN <<>> ELSE Head(ss) \o Concat(Tail(ss))

(***************************************************************************)
(* Counters.                                                               *)
(***************************************************************************)
inc_counter(ctr, k) == [ctr EXCEPT ![k] = @ + 1]

dec_counter(ctr, k) == [ctr EXCEPT ![k] = @ - 1]

ZeroCounters ==
  [STAT_TOTAL_USERS |-> 0, STAT_LOCAL_USERS |-> 0, STAT_MAX_USERS |-> 0,
   STAT_CHANNELS |-> 0]

\* a registration that stores the local count as maximum unconditionally
new_registered_client_setmax(ctr) ==
  LET c1 == inc_counter(inc_counter(ctr, "STAT_TOTAL_USERS"), "STAT_LOCAL_USERS")
  IN  [c1 EXCEPT !.STAT_MAX_USERS = c1.STAT_LOCAL_USERS]

\* IrcServer::new_registered_client, on the counters
new_registered_client_nomax(ctr) ==
  inc_counter(inc_counter(ctr, "STAT_TOTAL_USERS"), "STAT_LOCAL_USERS")

new_registered_client(ctr) ==
  LET c2 == inc_counter(inc_counter(ctr, "STAT_TOTAL_USERS"), "STAT_LOCAL_USERS")
  IN  IF c2.STAT_MAX_USERS < c2.STAT_TOTAL_USERS
      THEN [c2 EXCEPT !.STAT_MAX_USERS = c2.STAT_LOCAL_USERS]
      ELSE c2

\* a release that takes the counters down without looking at is_reg
free_client_always(st, c) ==
  LET cl == At(st.clients, c)
  IN  [st EXCEPT !.counters = dec_counter(dec_counter(st.counters, "STAT_TOTAL_USERS"),
                                          "STAT_LOCAL_USERS"),
                 !.clients = Put(st.clients, c,
                                 [cl EXCEPT !.alive = FALSE, !.reg = FALSE,
                                            !.channels = {}])]

\* IrcServer::free_client on a state st = [clients, channels, counters]:
\* the counters go down only for a registered client; the slot is released.
free_client(st, c) ==
  LET cl  == At(st.clients, c)
      ctr == IF cl.reg
             THEN dec_counter(dec_counter(st.counters, "STAT_TOTAL_USERS"),
                              "STAT_LOCAL_USERS")
             ELSE st.counters
  IN  [st EXCEPT !.counters = ctr,
                 !.clients = Put(st.clients, c,
                                 [cl EXCEPT !.alive = FALSE, !.reg = FALSE,
                                            !.channels = {}])]

\* a release of the lowest slot in place of the handle given
free_channel_other(st, ch) ==
  [st EXCEPT !.channels = Put(st.channels, 0,
                              [At(st.channels, 0) EXCEPT !.alive = FALSE]),
             !.counters = dec_counter(st.counters, "STAT_CHANNELS")]

\* IrcServer::free_channel
free_channel(st, ch) ==
  [st EXCEPT !.channels = Put(st.channels, ch,
                              [At(st.channels, ch) EXCEPT !.alive = FALSE]),
             !.counters = dec_counter(st.counters, "STAT_CHANNELS")]

\* IrcServer::create_channel: the new channel takes slot create_slot(channels)
create_channel(st, topic) ==
  [st EXCEPT !.channels = Store(st.channels, create_slot(st.channels),
                                [alive |-> TRUE, clients |-> {}, topic |-> topic]),
             !.counters = inc_counter(st.counters, "STAT_CHANNELS")]

\* A client leaves a channel; a channel left empty is freed.
remove_from_channel(st, c, ch) ==
  LET chan == At(st.channels, ch)
      cl   == At(st.clients, c)
      s1   == [st EXCEPT
                 !.channels = Put(st.channels, ch,
                                  [chan EXCEPT !.clients = @ \ {c}]),
                 !.clients = Put(st.clients, c,
                                 [cl EXCEPT !.channels = @ \ {ch}])]
  IN  IF At(s1.channels, ch).clients = {} THEN free_channel(s1, ch) ELSE s1

RECURSIVE leave_all(_, _, _)
leave_all(st, c, chs) ==
  IF chs = <<>> THEN st
  ELSE leave_all(remove_from_channel(st, c, Head(chs)), c, Tail(chs))

\* Client::kill: leave every channel, then free_client.
kill(st, c) ==
  free_client(leave_all(st, c, SortedSeq(At(st.clients, c).channels)), c)

State == [clients |-> clients, channels |-> channels, counters |-> counters]

SetState(st) ==
  /\ clients' = st.clients
  /\ channels' = st.channels
  /\ counters' = st.counters

(***************************************************************************)
(* Client-side operations.                                                 *)
(***************************************************************************)
NewClient(owner, reg) ==
  [alive |-> TRUE, reg |-> reg, server_id |-> owner, channels |-> {}]

\* client listener on_connect: clients.create + reset_to
client_connect ==
  /\ create_slot(clients) < cap.clients
  /\ clients' = Store(clients, create_slot(clients), NewClient(SelfId, FALSE))
  /\ last' = [op |-> "none"]
  /\ UNCHANGED <<channels, servers, servers_hash, counters, cap>>

\* NICK and USER both accepted
client_register(c) ==
  /\ At(clients, c).alive /\ ~At(clients, c).reg
  /\ clients' = Put(clients, c, [At(clients, c) EXCEPT !.reg = TRUE])
  /\ counters' = new_registered_client(counters)
  /\ last' = [op |-> "none"]
  /\ UNCHANGED <<channels, servers, servers_hash, cap>>

\* JOIN of an existing channel
client_join(c, ch) ==
  /\ At(clients, c).alive /\ At(clients, c).reg
  /\ At(channels, ch).alive
  /\ ch \notin At(clients, c).channels
  /\ clients' = Put(clients, c, [At(clients, c) EXCEPT !.channels = @ \cup {ch}])
  /\ channels' = Put(channels, ch, [At(channels, ch) EXCEPT !.clients = @ \cup {c}])
  /\ last' = [op |-> "none"]
  /\ UNCHANGED <<servers, servers_hash, counters, cap>>

\* JOIN of a channel that does not exist: create_channel, then join it
client_join_new(c, topic) ==
  /\ At(clients, c).alive /\ At(clients, c).reg
  /\ create_slot(channels) < cap.channels
  /\ LET ch == create_slot(channels)
         s1 == create_channel(State, topic)
     IN  SetState([s1 EXCEPT
           !.clients = Put(s1.clients, c,
                           [At(s1.clients, c) EXCEPT !.channels = @ \cup {ch}]),
           !.channels = Put(s1.channels, ch,
                            [At(s1.channels, ch) EXCEPT !.clients = {c}])])
  /\ last' = [op |-> "create_channel", ch |-> create_slot(channels),
              reused |-> create_slot(channels) < Len(channels)]
  /\ UNCHANGED <<servers, servers_hash, cap>>

\* PART
client_part(c, ch) ==
  /\ At(clients, c).alive
  /\ ch \in At(clients, c).channels
  /\ SetState(remove_from_channel(State, c, ch))
  /\ last' = [op |-> "none"]
  /\ UNCHANGED <<servers, servers_hash, cap>>

\* socket close, timeout or KILL of one client
client_kill(c) ==
  /\ At(clients, c).alive
  /\ SetState(kill(State, c))
  /\ last' = [op |-> "free_client", c |-> c, reg |-> At(clients, c).reg,
              total |-> counters.STAT_TOTAL_USERS,
              local |-> counters.STAT_LOCAL_USERS]
  /\ UNCHANGED <<servers, servers_hash, cap>>

(***************************************************************************)
(* The broadcast engine.                                                   *)
(***************************************************************************)
ChannelMembers(idx) ==
  [i \in 1 .. Len(SortedSeq(At(clients, idx).channels)) |->
     SortedSeq(At(channels, SortedSeq(At(clients, idx).channels)[i]).clients)]

\* A fan-out that keeps no set: one write per membership.
user_bcast_dests_nodedup(idx) == <<idx>> \o Concat(ChannelMembers(idx))

\* user_bcast: uset = {idx} and the members of every channel of idx; the
\* set is walked in ascending order.
user_bcast_dests(idx) ==
  SortedSeq({idx} \cup
            UNION {At(channels, ch).clients : ch \in At(clients, idx).channels})

\* A fan-out that forgets uset.erase(idx).
user_bcast_butone_dests_noerase(idx) ==
  SortedSeq(UNION {At(channels, ch).clients : ch \in At(clients, idx).channels})

\* user_bcast_butone: the same union, with idx erased.
user_bcast_butone_dests(idx) ==
  SortedSeq(UNION {At(channels, ch).clients : ch \in At(clients, idx).channels}
            \ {idx})

Sends(dests, line) == [i \in 1 .. Len(dests) |-> [to |-> dests[i], data |-> line]]

user_bcast(idx, line) ==
  /\ At(clients, idx).alive
  /\ last' = [op |-> "user_bcast", src |-> idx, line |-> line,
              sent |-> Sends(user_bcast_dests(idx), line)]
  /\ UNCHANGED <<clients, channels, servers, servers_hash, counters, cap>>

user_bcast_butone(idx, line) ==
  /\ At(clients, idx).alive
  /\ last' = [op |-> "user_bcast_butone", src |-> idx, line |-> line,
              sent |-> Sends(user_bcast_butone_dests(idx), line)]
  /\ UNCHANGED <<clients, channels, servers, servers_hash, counters, cap>>

(***************************************************************************)
(* The string forms of the broadcasts.  A string is a sequence of          *)
(* one-character strings.                                                  *)
(***************************************************************************)
BufSize == 256

NUL == "NUL"
CR == "\r"
LF == "\n"

Min(a, b) == IF a < b THEN a ELSE b

Rep(ch, n) == [i \in 1 .. n |-> ch]

DigitChar(d) == <<"0", "1", "2", "3", "4", "5", "6", "7", "8", "9">>[d + 1]

RECURSIVE Digits(_)
Digits(n) == IF n < 10 THEN <<DigitChar(n)>>
             ELSE Digits(n \div 10) \o <<DigitChar(n % 10)>>

\* "%03u": decimal, zero-padded to a width of at least three
printf_03u(n) == Rep("0", 3 - Len(Digits(n))) \o Digits(n)

\* the output of the format ":%s %03u %s" had the buffer no limit
format(from, tk, msg) ==
  <<":">> \o from \o <<" ">> \o printf_03u(tk) \o <<" ">> \o msg

\* snprintf(buffer, sizeof(buffer), ...): at most BufSize - 1 characters
\* and a terminating NUL are stored; the value returned is the length of
\* the whole output
snprintf(from, tk, msg) ==
  LET out == format(from, tk, msg)
  IN  [buffer |-> SubSeq(out, 1, Min(Len(out), BufSize - 1)) \o <<NUL>>,
       len    |-> Len(out)]

\* the positions of a len-byte read of the buffer that the call did not
\* store: their content is not defined
Unstored(from, tk, msg) ==
  (Len(snprintf(from, tk, msg).buffer) + 1) .. snprintf(from, tk, msg).len

\* memcpy(netbuff, buffer, len): junk gives the bytes at the positions not
\* stored
memcpy(buffer, len, junk) ==
  [i \in 1 .. len |-> IF i <= Len(buffer) THEN buffer[i] ELSE junk[i]]

\* the record of a string-form broadcast
StrBcast(form, idx, from, tk, msg, junk, dests) ==
  LET r == snprintf(from, tk, msg)
  IN  [op |-> "user_bcast_str", form |-> form, src |-> idx,
       from |-> from, tk |-> tk, msg |-> msg,
       len |-> r.len, stored |-> Len(r.buffer),
       sent |-> Sends(dests, memcpy(r.buffer, r.len, junk))]

\* IrcServer::user_bcast(idx, from, tk, msg)
user_bcast_str(idx, from, tk, msg, junk) ==
  /\ At(clients, idx).alive
  /\ last' = StrBcast("all", idx, from, tk, msg, junk, user_bcast_dests(idx))
  /\ UNCHANGED <<clients, channels, servers, servers_hash, counters, cap>>

\* IrcServer::user_bcast_butone(idx, from, tk, msg)
user_bcast_butone_str(idx, from, tk, msg, junk) ==
  /\ At(clients, idx).alive
  /\ last' = StrBcast("butone", idx, from, tk, msg, junk,
                      user_bcast_butone_dests(idx))
  /\ UNCHANGED <<clients, channels, servers, servers_hash, counters, cap>>

\* the inputs of the string forms
Froms == {<<"a">>, <<"i", "r", "c">>}
Numerics == {1, 42, 433}
Junk == {"?", "#"}
TailLens == (0 .. MaxTail) \cup ((BufSize - 8 - MaxOver) .. (BufSize - 8 + MaxOver))
Tails == {Rep("x", n) : n \in TailLens}

(***************************************************************************)
(* Peer servers: the configured remote records, the name index, accept,    *)
(* registration, introduction and disconnect.                              *)
(***************************************************************************)
Names == {"a", "b"}

Passes == {"pa", "pb"}

Tokens == {"A", "B"}

remote_server_list ==
  <<[sname |-> "a", spass |-> "pa"], [sname |-> "b", spass |-> "pb"]>>

DeadServer ==
  [alive |-> FALSE, regged |-> FALSE, local |-> FALSE, name |-> "", token |-> "",
   sock |-> "empty"]

\* a peer entity with a socket, before its handshake has completed
NewServer(name) ==
  [alive |-> TRUE, regged |-> FALSE, local |-> TRUE, name |-> name, token |-> "",
   sock |-> "empty"]

\* What has been sent on the socket of an entity so far, as far as bursts
\* and relays go: "empty", "burst" (a whole netburst, EB included),
\* "burst_relay" (a netburst and relayed messages after it) or "relay"
\* (a relayed message with no netburst before it).
sock_burst(s) == IF s = "empty" THEN "burst" ELSE s

sock_relay(s) ==
  CASE s = "empty" -> "relay"
    [] s = "burst" -> "burst_relay"
    [] OTHER -> s

\* srv.send(msg) on every slot of dests
send_relay(srvs, dests) ==
  [i \in 1 .. Len(srvs) |->
     IF \E k \in 1 .. Len(dests) : dests[k] = i - 1
     THEN [srvs[i] EXCEPT !.sock = sock_relay(@)]
     ELSE srvs[i]]

\* servers.find(name): the name index, kept on registration and on free
find(hash, name) ==
  IF \E e \in hash : e.name = name
  THEN (CHOOSE e \in hash : e.name = name).id
  ELSE NO_SUCH_SERVER

hash_insert(hash, name, id) ==
  {e \in hash : e.name # name} \cup {[name |-> name, id |-> id]}

hash_erase(hash, id) == {e \in hash : e.id # id}

\* a check that takes the name from one record and the secret from another
accept_remote_server_anyrecord(name, pass) ==
  /\ \E i \in 1 .. Len(remote_server_list) : remote_server_list[i].sname = name
  /\ \E j \in 1 .. Len(remote_server_list) : remote_server_list[j].spass = pass

\* IrcServer::accept_remote_server
accept_remote_server(name, pass) ==
  \E i \in 1 .. Len(remote_server_list) :
    remote_server_list[i].sname = name /\ remote_server_list[i].spass = pass

\* server listener on_connect: servers.create + connect(ssock)
server_accept ==
  /\ create_slot(servers) < cap.servers
  /\ servers' = Store(servers, create_slot(servers), NewServer(""))
  /\ last' = [op |-> "none"]
  /\ UNCHANGED <<clients, channels, servers_hash, counters, cap>>

\* the test of call_remote_servers with the lookup left out
connect_wanted_always(hash, name) == TRUE

\* call_remote_servers: "check if we have a server by that name"
connect_wanted(hash, name) == find(hash, name) = NO_SUCH_SERVER

\* call_remote_servers, from record i on: acc = [servers, attempts]
RECURSIVE call_remote_servers_from(_, _)
call_remote_servers_from(acc, i) ==
  IF i > Len(remote_server_list) THEN acc
  ELSE LET remote == remote_server_list[i]
       IN  call_remote_servers_from(
             IF connect_wanted(servers_hash, remote.sname)
             THEN [servers |-> Store(acc.servers, create_slot(acc.servers),
                                     NewServer(remote.sname)),
                   attempts |-> Append(acc.attempts, 1)]
             ELSE [acc EXCEPT !.attempts = Append(@, 0)],
             i + 1)

call_remote_servers ==
  LET r == call_remote_servers_from([servers |-> servers, attempts |-> <<>>], 1)
  IN  /\ Len(r.servers) <= cap.servers
      /\ servers' = r.servers
      /\ last' = [op |-> "call_remote_servers", attempts |-> r.attempts]
      /\ UNCHANGED <<clients, channels, servers_hash, counters, cap>>

\* a sweep that does not test is_alive
should_kill_noalive(cl, srv) == cl.server_id = srv

\* kill_remote_clients_on: the test of one client slot
should_kill(cl, srv) == cl.alive /\ cl.server_id = srv

\* kill_remote_clients_on, from slot id on: acc = [st, killed]
RECURSIVE kill_remote_clients_from(_, _, _)
kill_remote_clients_from(acc, srv, id) ==
  IF id >= Len(acc.st.clients) THEN acc
  ELSE kill_remote_clients_from(
         IF should_kill(At(acc.st.clients, id), srv)
         THEN [st |-> kill(acc.st, id),
               killed |-> Append(acc.killed, [id |-> id, propagate |-> FALSE])]
         ELSE acc,
         srv, id + 1)

kill_remote_clients_on(st, srv) ==
  kill_remote_clients_from([st |-> st, killed |-> <<>>], srv, 0)

Owned(srv) ==
  {c \in Handles(clients) : At(clients, c).alive /\ At(clients, c).server_id = srv}

\* a peer link closes: its clients are killed, then the entity is freed
server_close(s) ==
  /\ At(servers, s).alive
  /\ LET r == kill_remote_clients_on(State, s)
     IN  /\ SetState(r.st)
         /\ last' = [op |-> "netsplit", srv |-> s, killed |-> r.killed,
                     owned |-> Owned(s),
                     owned_reg |-> {c \in Owned(s) : At(clients, c).reg},
                     others |-> {c \in Handles(clients) :
                                   At(clients, c).alive /\ c \notin Owned(s)},
                     before |-> counters]
  /\ servers' = Put(servers, s, DeadServer)
  /\ servers_hash' = hash_erase(servers_hash, s)
  /\ UNCHANGED cap

\* a client introduced by a peer (N): it resides on server owner
remote_client(owner) ==
  /\ At(servers, owner).alive /\ At(servers, owner).regged
  /\ create_slot(clients) < cap.clients
  /\ clients' = Store(clients, create_slot(clients), NewClient(owner, TRUE))
  /\ counters' = new_registered_client(counters)
  /\ last' = [op |-> "none"]
  /\ UNCHANGED <<channels, servers, servers_hash, cap>>

(***************************************************************************)
(* The netburst encoder.  A line is [kind, id]: S for a server, N for a    *)
(* client, B or C for a channel, EB for the terminator.                    *)
(***************************************************************************)
Line(kind, id) == [kind |-> kind, id |-> id]

MapLines(kind, hs) == [i \in 1 .. Len(hs) |-> Line(kind, hs[i])]

\* "send my servers": every slot below servers.size() that is_regged
server_lines(srvs) ==
  MapLines("S", SortedSeq({h \in Handles(srvs) : At(srvs, h).regged}))

\* The client loop runs id over 0 .. channels.size()-1 and reads
\* clients.get(id).  A read at or beyond clients.size() is out of the table:
\* what is_reg() and get_server_id() return there is garbage[id].
client_loop_range(chans) == Handles(chans)

GarbageOwners == {0, NO_SUCH_SERVER}

GarbageClients == [reg : BOOLEAN, server_id : GarbageOwners]

client_is_reg(cls, garbage, id) ==
  IF id < Len(cls) THEN At(cls, id).reg ELSE garbage[id].reg

client_emitted(cls, chans, garbage) ==
  SortedSeq({id \in client_loop_range(chans) : client_is_reg(cls, garbage, id)})

client_lines(cls, chans, garbage) ==
  MapLines("N", client_emitted(cls, chans, garbage))

\* servers.get(cl.get_server_id()): the handle looked up for each client
\* emitted, in order
client_owners(cls, chans, garbage) ==
  LET ids == client_emitted(cls, chans, garbage)
  IN  [i \in 1 .. Len(ids) |->
         IF ids[i] < Len(cls) THEN At(cls, ids[i]).server_id
         ELSE garbage[ids[i]].server_id]

\* "channel bursts": B with a topic, C without
channel_lines(chans) ==
  LET hs == SortedSeq({h \in Handles(chans) : At(chans, h).alive})
  IN  [i \in 1 .. Len(hs) |->
         Line(IF At(chans, hs[i]).topic THEN "B" ELSE "C", hs[i])]

\* an encoder that bursts the channels before the clients
begin_netburst_chans_first(srvs, cls, chans, garbage) ==
  server_lines(srvs) \o channel_lines(chans) \o client_lines(cls, chans, garbage)
    \o <<Line("EB", -1)>>

\* IrcServer::begin_netburst: everything sent to target, in order
begin_netburst(srvs, cls, chans, garbage) ==
  server_lines(srvs) \o client_lines(cls, chans, garbage) \o channel_lines(chans)
    \o <<Line("EB", -1)>>

\* the client slots the client loop reads beyond the table
OutOfTable == Len(clients) .. (Len(channels) - 1)

(***************************************************************************)
(* The peer link: handshake, introduction of remote servers, relaying.     *)
(***************************************************************************)
TokenInUse(token) ==
  \E h \in Handles(servers) : At(servers, h).alive /\ At(servers, h).token = token

\* the offered (name, pass, token) completes the handshake of entity s
handshake_ok(s, name, pass, token) ==
  /\ accept_remote_server(name, pass)
  /\ At(servers, s).name \in {"", name}
  /\ find(servers_hash, name) = NO_SUCH_SERVER
  /\ ~TokenInUse(token)

\* UNREGISTERED -> REGISTERED, followed by the netburst toward the peer
server_register(s, name, pass, token, garbage) ==
  /\ At(servers, s).alive /\ ~At(servers, s).regged /\ At(servers, s).local
  /\ handshake_ok(s, name, pass, token)
  /\ servers' = Put(servers, s, [At(servers, s) EXCEPT
                                   !.regged = TRUE, !.name = name, !.token = token,
                                   !.sock = sock_burst(@)])
  /\ servers_hash' = hash_insert(servers_hash, name, s)
  /\ last' = [op |-> "netburst", target |-> s, name |-> name, pass |-> pass,
              stream |-> begin_netburst(servers', clients, channels, garbage),
              visited |-> client_loop_range(channels),
              owners |-> client_owners(clients, channels, garbage)]
  /\ UNCHANGED <<clients, channels, counters, cap>>

\* UNREGISTERED -> CLOSED on a mismatch
server_reject(s, name, pass, token) ==
  /\ At(servers, s).alive /\ ~At(servers, s).regged /\ At(servers, s).local
  /\ ~handshake_ok(s, name, pass, token)
  /\ SetState(kill_remote_clients_on(State, s).st)
  /\ servers' = Put(servers, s, DeadServer)
  /\ servers_hash' = hash_erase(servers_hash, s)
  /\ UNCHANGED cap
  /\ last' = [op |-> "rejected", srv |-> s, name |-> name, pass |-> pass]

\* a server learned through the registered local peer via (S)
server_introduce(via, name, token) ==
  /\ At(servers, via).alive /\ At(servers, via).regged /\ At(servers, via).local
  /\ find(servers_hash, name) = NO_SUCH_SERVER
  /\ ~TokenInUse(token)
  /\ create_slot(servers) < cap.servers
  /\ servers' = Store(servers, create_slot(servers),
                      [alive |-> TRUE, regged |-> TRUE, local |-> FALSE,
                       name |-> name, token |-> token, sock |-> "empty"])
  /\ servers_hash' = hash_insert(servers_hash, name, create_slot(servers))
  /\ last' = [op |-> "none"]
  /\ UNCHANGED <<clients, channels, counters, cap>>

RECURSIVE Filter(_, _)
Filter(seq, keep) ==
  IF seq = <<>> THEN <<>>
  ELSE (IF Head(seq) \in keep THEN <<Head(seq)>> ELSE <<>>) \o Filter(Tail(seq), keep)

HandleSeq(tab) == [i \in 1 .. Len(tab) |-> i - 1]

\* a broadcast that does not look at is_regged
sbcast_dests_noreg ==
  Filter(HandleSeq(servers),
         {id \in Handles(servers) : At(servers, id).local})

\* a broadcast that does not look at is_local
sbcast_dests_nolocal ==
  Filter(HandleSeq(servers),
         {id \in Handles(servers) : At(servers, id).regged})

\* IrcServer::sbcast: the slots written, in order
sbcast_dests ==
  Filter(HandleSeq(servers),
         {id \in Handles(servers) : At(servers, id).regged /\ At(servers, id).local})

\* a relay that does not skip the origin
sbcast_butone_dests_noskip(origin) ==
  Filter(HandleSeq(servers),
         {id \in Handles(servers) : At(servers, id).regged /\ At(servers, id).local})

\* IrcServer::sbcast_butone: the slots written, in order
sbcast_butone_dests(origin) ==
  Filter(HandleSeq(servers),
         {id \in Handles(servers) :
            id # origin /\ At(servers, id).regged /\ At(servers, id).local})

sbcast(msg) ==
  /\ last' = [op |-> "sbcast", msg |-> msg, sent |-> Sends(sbcast_dests, msg)]
  /\ servers' = send_relay(servers, sbcast_dests)
  /\ UNCHANGED <<clients, channels, servers_hash, counters, cap>>

sbcast_butone(origin, msg) ==
  /\ last' = [op |-> "sbcast_butone", origin |-> origin, msg |-> msg,
              sent |-> Sends(sbcast_butone_dests(origin), msg)]
  /\ servers' = send_relay(servers, sbcast_butone_dests(origin))
  /\ UNCHANGED <<clients, channels, servers_hash, counters, cap>>

(***************************************************************************)
(* Clients, channels and broadcasts.                                       *)
(***************************************************************************)
\* The state after construction: empty tables, zero counters.  cap is the
\* capacity of the three tables (a full table refuses a new entity).
InitEmpty ==
  /\ clients = <<>>
  /\ channels = <<>>
  /\ servers = <<>>
  /\ servers_hash = {}
  /\ counters = ZeroCounters
  /\ last = [op |-> "none"]

NextBcast ==
  \/ client_connect
  \/ \E c \in Handles(clients) : client_register(c)
  \/ \E c \in Handles(clients), ch \in Handles(channels) : client_join(c, ch)
  \/ \E c \in Handles(clients) : client_join_new(c, FALSE)
  \/ \E c \in Handles(clients), ch \in Handles(channels) : client_part(c, ch)
  \/ \E c \in Handles(clients) : client_kill(c)
  \/ \E c \in Handles(clients), l \in Lines : user_bcast(c, l)
  \/ \E c \in Handles(clients), l \in Lines : user_bcast_butone(c, l)

InitBcast ==
  InitEmpty /\ cap = [clients |-> MaxClients, channels |-> MaxChannels, servers |-> 0]

SpecBcast == InitBcast /\ [][NextBcast]_vars

(***************************************************************************)
(* The string forms, over the client and channel tables.                   *)
(***************************************************************************)
NextFmt ==
  \/ client_connect
  \/ \E c \in Handles(clients) : client_register(c)
  \/ \E c \in Handles(clients), ch \in Handles(channels) : client_join(c, ch)
  \/ \E c \in Handles(clients) : client_join_new(c, FALSE)
  \/ \E c \in Handles(clients), f \in Froms, tk \in Numerics, m \in Tails :
       \E j \in [Unstored(f, tk, m) -> Junk] : user_bcast_str(c, f, tk, m, j)
  \/ \E c \in Handles(clients), f \in Froms, tk \in Numerics, m \in Tails :
       \E j \in [Unstored(f, tk, m) -> Junk] : user_bcast_butone_str(c, f, tk, m, j)

InitFmt ==
  InitEmpty /\ cap = [clients |-> MaxFmtClients, channels |-> MaxFmtChannels,
                      servers |-> 0]

SpecFmt == InitFmt /\ [][NextFmt]_vars

(***************************************************************************)
(* Clients, peers and the user counters.                                   *)
(***************************************************************************)
NextSplit ==
  \/ client_connect
  \/ \E c \in Handles(clients) : client_register(c)
  \/ \E s \in Handles(servers) : remote_client(s)
  \/ \E c \in Handles(clients) : client_kill(c)
  \/ server_accept
  \/ \E s \in Handles(servers), n \in Names, p \in Passes, t \in Tokens :
       \E g \in [OutOfTable -> GarbageClients] : server_register(s, n, p, t, g)
  \/ \E s \in Handles(servers) : server_close(s)

InitSplit ==
  InitEmpty /\ cap = [clients |-> MaxClients, channels |-> 0, servers |-> MaxSplitServers]

SpecSplit == InitSplit /\ [][NextSplit]_vars

(***************************************************************************)
(* The peer links.                                                         *)
(***************************************************************************)
NextLink ==
  \/ server_accept
  \/ call_remote_servers
  \/ \E s \in Handles(servers), n \in Names, p \in Passes, t \in Tokens :
       \E g \in [OutOfTable -> GarbageClients] : server_register(s, n, p, t, g)
  \/ \E s \in Handles(servers), n \in Names, p \in Passes, t \in Tokens :
       server_reject(s, n, p, t)
  \/ \E s \in Handles(servers), n \in Names, t \in Tokens : server_introduce(s, n, t)
  \/ \E s \in Handles(servers) : server_close(s)
  \/ \E l \in Lines : sbcast(l)
  \/ \E o \in 0 .. MaxServers, l \in Lines : sbcast_butone(o, l)

InitLink ==
  InitEmpty /\ cap = [clients |-> 0, channels |-> 0, servers |-> MaxServers]

SpecLink == InitLink /\ [][NextLink]_vars

(***************************************************************************)
(* Clients, channels and the netburst toward a newly registered peer.      *)
(***************************************************************************)
NextBurst ==
  \/ client_connect
  \/ \E c \in Handles(clients) : client_register(c)
  \/ \E c \in Handles(clients), ch \in Handles(channels) : client_join(c, ch)
  \/ \E c \in Handles(clients), t \in BOOLEAN : client_join_new(c, t)
  \/ \E c \in Handles(clients) : client_kill(c)
  \/ server_accept
  \/ \E s \in Handles(servers), n \in Names, p \in Passes, t \in Tokens :
       \E g \in [OutOfTable -> GarbageClients] : server_register(s, n, p, t, g)

InitBurst ==
  InitEmpty /\ cap = [clients |-> MaxBurstClients, channels |-> MaxBurstChannels,
                     servers |-> MaxBurstServers]

SpecBurst == InitBurst /\ [][NextBurst]_vars

\* c and s are members of one live channel
SharesChannel(c, s) ==
  \E ch \in Handles(channels) :
    /\ At(channels, ch).alive
    /\ c \in At(channels, ch).clients
    /\ s \in At(channels, ch).clients

SentTo(c) ==
  Cardinality({i \in 1 .. Len(last.sent) :
                 last.sent[i].to = c /\ last.sent[i].data = last.line})

\* C1: user_bcast(s, line) writes line exactly once to s, exactly once to
\* every client that shares at least one channel with s, and to no one else
\* (every write of the broadcast carries line and goes to a client slot).
BroadcastUniqueness ==
  last.op = "user_bcast" =>
    /\ \A i \in 1 .. Len(last.sent) :
         last.sent[i].to \in Handles(clients) /\ last.sent[i].data = last.line
    /\ \A c \in Handles(clients) :
         SentTo(c) = IF c = last.src \/ SharesChannel(c, last.src) THEN 1 ELSE 0

\* a broadcast from a source with a peer in two shared channels and a
\* bystander in none
BroadcastUniquenessWitness ==
  /\ last.op = "user_bcast"
  /\ \E c \in Handles(clients) :
       /\ c # last.src
       /\ Cardinality(At(clients, c).channels \cap At(clients, last.src).channels) = 2
       /\ SentTo(c) = 1
  /\ \E d \in Handles(clients) :
       d # last.src /\ At(clients, d).alive /\ ~SharesChannel(d, last.src)
         /\ SentTo(d) = 0

\* C2: user_bcast_butone(s, line) never writes to s, writes line exactly once
\* to every other client that shares at least one channel with s, and to no
\* one else.
OriginExclusion ==
  last.op = "user_bcast_butone" =>
    /\ \A i \in 1 .. Len(last.sent) :
         /\ last.sent[i].to \in Handles(clients)
         /\ last.sent[i].to # last.src
         /\ last.sent[i].data = last.line
    /\ \A c \in Handles(clients) :
         SentTo(c) = IF c # last.src /\ SharesChannel(c, last.src) THEN 1 ELSE 0

OriginExclusionWitness ==
  /\ last.op = "user_bcast_butone"
  /\ At(clients, last.src).channels # {}
  /\ SentTo(last.src) = 0
  /\ \E c \in Handles(clients) :
       /\ c # last.src
       /\ Cardinality(At(clients, c).channels \cap At(clients, last.src).channels) = 2
       /\ SentTo(c) = 1
  /\ \E d \in Handles(clients) :
       d # last.src /\ At(clients, d).alive /\ ~SharesChannel(d, last.src)
         /\ SentTo(d) = 0

(***************************************************************************)
(* Peer relay.                                                             *)
(***************************************************************************)
Eligible(h) == At(servers, h).alive /\ At(servers, h).regged /\ At(servers, h).local

RelayedTo(h) ==
  Cardinality({i \in 1 .. Len(last.sent) :
                 last.sent[i].to = h /\ last.sent[i].data = last.msg})

\* C3: sbcast_butone(o, m) writes m exactly once to every server entity
\* that is local and registered and whose handle is not o, and writes
\* nothing to o, to a remote or unregistered entity, to a free slot or
\* anywhere else.
PeerFanOut ==
  last.op = "sbcast_butone" =>
    /\ \A i \in 1 .. Len(last.sent) :
         last.sent[i].to \in Handles(servers) /\ last.sent[i].data = last.msg
    /\ \A h \in Handles(servers) :
         RelayedTo(h) = IF Eligible(h) /\ h # last.origin THEN 1 ELSE 0

\* a relay whose origin is itself a local registered peer, with another
\* peer that is written and an entity that is not eligible
PeerFanOutWitness ==
  /\ last.op = "sbcast_butone"
  /\ last.origin \in Handles(servers)
  /\ Eligible(last.origin)
  /\ RelayedTo(last.origin) = 0
  /\ \E h \in Handles(servers) : h # last.origin /\ RelayedTo(h) = 1
  /\ \E h \in Handles(servers) :
       At(servers, h).alive /\ ~Eligible(h) /\ RelayedTo(h) = 0

(***************************************************************************)
(* Netburst.                                                               *)
(***************************************************************************)
BurstCount(kinds, id) ==
  Cardinality({i \in 1 .. Len(last.stream) :
                 last.stream[i].kind \in kinds /\ last.stream[i].id = id})

\* C4: one begin_netburst emits every live (registered) server entity,
\* every registered client and every live channel in exactly one line
\* before the EB terminator.
NetburstCompleteness ==
  last.op = "netburst" =>
    /\ last.stream[Len(last.stream)].kind = "EB"
    /\ \A s \in Handles(servers) :
         At(servers, s).alive /\ At(servers, s).regged => BurstCount({"S"}, s) = 1
    /\ \A c \in Handles(clients) :
         At(clients, c).alive /\ At(clients, c).reg => BurstCount({"N"}, c) = 1
    /\ \A ch \in Handles(channels) :
         At(channels, ch).alive => BurstCount({"B", "C"}, ch) = 1

Rank(kind) ==
  CASE kind = "S" -> 1
    [] kind = "N" -> 2
    [] kind \in {"B", "C"} -> 3
    [] kind = "EB" -> 4

\* C5: the stream of one begin_netburst is all S lines, then all N lines,
\* then all B/C lines, then exactly one EB as its last line; no line of an
\* earlier kind follows a line of a later kind.
NetburstOrdering ==
  last.op = "netburst" =>
    /\ Len(last.stream) >= 1
    /\ \A i \in 1 .. Len(last.stream) :
         last.stream[i].kind \in {"S", "N", "B", "C", "EB"}
    /\ \A i, j \in 1 .. Len(last.stream) :
         i < j => Rank(last.stream[i].kind) <= Rank(last.stream[j].kind)
    /\ \A i \in 1 .. Len(last.stream) :
         last.stream[i].kind = "EB" <=> i = Len(last.stream)

\* a burst with a server line, a client line and both kinds of channel line
NetburstOrderingWitness ==
  /\ last.op = "netburst"
  /\ \A k \in {"S", "N", "B", "C", "EB"} :
       \E i \in 1 .. Len(last.stream) : last.stream[i].kind = k

(***************************************************************************)
(* User counters and netsplit.                                             *)
(***************************************************************************)
\* C6: STAT_LOCAL_USERS <= STAT_TOTAL_USERS <= STAT_MAX_USERS after every
\* operation.
CounterOrdering ==
  /\ counters.STAT_LOCAL_USERS <= counters.STAT_TOTAL_USERS
  /\ counters.STAT_TOTAL_USERS <= counters.STAT_MAX_USERS

\* after a netsplit that killed registered clients, below the high-water mark
CounterOrderingWitness ==
  /\ last.op = "netsplit"
  /\ last.owned_reg # {}
  /\ counters.STAT_TOTAL_USERS >= 1
  /\ counters.STAT_TOTAL_USERS < counters.STAT_MAX_USERS

\* C7: a netsplit of a peer owning N registered clients lowers
\* STAT_TOTAL_USERS by exactly N and leaves STAT_LOCAL_USERS unchanged.
NetsplitCounters ==
  last.op = "netsplit" =>
    /\ counters.STAT_TOTAL_USERS =
         last.before.STAT_TOTAL_USERS - Cardinality(last.owned_reg)
    /\ counters.STAT_LOCAL_USERS = last.before.STAT_LOCAL_USERS

KilledCount(c) ==
  Cardinality({i \in 1 .. Len(last.killed) : last.killed[i].id = c})

\* C8: kill_remote_clients_on(sindex) kills, with propagate = false, every
\* live client owned by sindex exactly once, and no other client slot:
\* neither a client of another server nor a free slot.
NetsplitKillSet ==
  last.op = "netsplit" =>
    /\ \A i \in 1 .. Len(last.killed) : last.killed[i].propagate = FALSE
    /\ \A c \in Handles(clients) :
         KilledCount(c) = IF c \in last.owned THEN 1 ELSE 0
    /\ \A c \in last.owned : ~At(clients, c).alive
    /\ \A c \in last.others : At(clients, c).alive

\* a sweep over a table holding a client of the peer, a live client of
\* another owner and a free slot
NetsplitKillSetWitness ==
  /\ last.op = "netsplit"
  /\ last.owned # {}
  /\ last.others # {}
  /\ \E c \in Handles(clients) :
       c \notin last.owned /\ ~At(clients, c).alive /\ At(clients, c).server_id = last.srv
  /\ \A c \in last.owned : KilledCount(c) = 1

(***************************************************************************)
(* Server identity and the outbound connector.                             *)
(***************************************************************************)
\* C9: no two known server entities have the same name, and no two have
\* the same token.
ServerIdentityUniqueness ==
  \A h1, h2 \in Handles(servers) :
    (h1 # h2 /\ At(servers, h1).alive /\ At(servers, h2).alive) =>
      /\ At(servers, h1).name # "" => At(servers, h1).name # At(servers, h2).name
      /\ At(servers, h1).token # "" => At(servers, h1).token # At(servers, h2).token

\* the link named name is established
Established(name) ==
  \E h \in Handles(servers) :
    At(servers, h).alive /\ At(servers, h).regged /\ At(servers, h).name = name

PairConfigured(name, pass) ==
  [sname |-> name, spass |-> pass] \in
    {remote_server_list[i] : i \in 1 .. Len(remote_server_list)}

\* the outcome of the last handshake agrees with the configured records
Authenticated ==
  /\ last.op = "netburst" =>
       /\ PairConfigured(last.name, last.pass)
       /\ At(servers, last.target).regged
       /\ At(servers, last.target).name = last.name
  /\ (last.op = "rejected" /\ ~PairConfigured(last.name, last.pass)) =>
       /\ ~At(servers, last.srv).alive
       /\ ~At(servers, last.srv).regged
  /\ \A h \in Handles(servers) :
       (At(servers, h).regged /\ At(servers, h).local) =>
         \E i \in 1 .. Len(remote_server_list) :
           remote_server_list[i].sname = At(servers, h).name

\* C11: a peer becomes REGISTERED only on a (name, pass) that is the pair
\* of one single configured record; on a mismatch it is CLOSED (its slot
\* is free and not registered) and not REGISTERED; CLOSED is terminal: a
\* closed slot never turns into a registered local peer in one step, it
\* can only be taken by a new entity.
PeerAuthentication ==
  /\ []Authenticated
  /\ [][\A h \in Handles(servers) :
          ~At(servers, h).alive =>
            ~(At(servers', h).regged /\ At(servers', h).local)]_vars

\* a peer offering the name of one record with the secret of another is
\* closed, while another peer is registered
PeerAuthenticationWitness ==
  /\ last.op = "rejected"
  /\ \E i, j \in 1 .. Len(remote_server_list) :
       /\ i # j
       /\ last.name = remote_server_list[i].sname
       /\ last.pass = remote_server_list[j].spass
  /\ ~At(servers, last.srv).alive
  /\ \E h \in Handles(servers) : At(servers, h).regged /\ At(servers, h).local

ServerBroadcast ==
  last.op = "sbcast" =>
    /\ \A h \in Handles(servers) :
         RelayedTo(h) =
           IF At(servers, h).alive /\ At(servers, h).regged /\ At(servers, h).local
           THEN 1 ELSE 0
    /\ \A i \in 1 .. Len(last.sent) :
         last.sent[i].to \in Handles(servers) /\ last.sent[i].data = last.msg

\* an sbcast with a registered local peer written, and a registered remote
\* entity and a slot that is free or not registered left out
ServerBroadcastWitness ==
  /\ last.op = "sbcast"
  /\ \E h \in Handles(servers) :
       At(servers, h).regged /\ At(servers, h).local /\ RelayedTo(h) = 1
  /\ \E h \in Handles(servers) :
       At(servers, h).regged /\ ~At(servers, h).local /\ RelayedTo(h) = 0
  /\ \E h \in Handles(servers) :
       ~At(servers, h).regged /\ RelayedTo(h) = 0

(***************************************************************************)
(* User counters.                                                          *)
(***************************************************************************)
\* C14: across every step STAT_MAX_USERS is the larger of its old value and
\* the new STAT_TOTAL_USERS, so it is the largest value STAT_TOTAL_USERS has
\* held since start (both start at 0) and it never decreases.
MaxUsersHighWater ==
  [][counters'.STAT_MAX_USERS =
       IF counters'.STAT_TOTAL_USERS > counters.STAT_MAX_USERS
       THEN counters'.STAT_TOTAL_USERS
       ELSE counters.STAT_MAX_USERS]_vars

\* a registration after a free: the total is back below the maximum held
MaxUsersHighWaterWitness ==
  /\ counters.STAT_MAX_USERS >= 2
  /\ counters.STAT_TOTAL_USERS >= 1
  /\ counters.STAT_TOTAL_USERS < counters.STAT_MAX_USERS
  /\ \E c \in Handles(clients) : ~At(clients, c).alive
  /\ \E c \in Handles(clients) : At(clients, c).alive /\ At(clients, c).reg

\* C15: free_client(c) takes STAT_TOTAL_USERS and STAT_LOCAL_USERS down by
\* exactly one when c had registered and leaves them as they were when it
\* had not; either way the slot of c is released; no user counter is ever
\* below zero.
FreeClientCounters ==
  /\ counters.STAT_TOTAL_USERS >= 0
  /\ counters.STAT_LOCAL_USERS >= 0
  /\ counters.STAT_MAX_USERS >= 0
  /\ last.op = "free_client" =>
       /\ ~At(clients, last.c).alive
       /\ counters.STAT_TOTAL_USERS = last.total - (IF last.reg THEN 1 ELSE 0)
       /\ counters.STAT_LOCAL_USERS = last.local - (IF last.reg THEN 1 ELSE 0)

\* an unregistered client was freed while registered users exist
FreeClientCountersWitness ==
  /\ last.op = "free_client"
  /\ ~last.reg
  /\ last.total >= 1
  /\ counters.STAT_TOTAL_USERS = last.total
  /\ ~At(clients, last.c).alive

(***************************************************************************)
(* The string forms.                                                       *)
(***************************************************************************)
\* C16: for every from, numeric and tail, each write of a string-form
\* broadcast is the line ':' from ' ' NNN ' ' tail CR LF, NNN being the
\* numeric zero-padded to three digits.
NumericLine ==
  last.op = "user_bcast_str" =>
    \A i \in 1 .. Len(last.sent) :
      last.sent[i].data =
        <<":">> \o last.from \o <<" ">>
          \o Rep("0", 3 - Len(Digits(last.tk))) \o Digits(last.tk)
          \o <<" ">> \o last.msg \o <<CR, LF>>

\* C20: the length a string form hands to the raw-buffer form is never
\* more than the number of bytes the formatting stored in the 256-byte
\* buffer, whatever the lengths of from and msg.
LengthWithinBuffer ==
  last.op = "user_bcast_str" => last.len <= last.stored

(***************************************************************************)
(* Owners of clients.                                                      *)
(***************************************************************************)
\* handle sid names this server or a live entity of the servers table
Resolvable(sid) ==
  \/ sid = SelfId
  \/ sid \in Handles(servers) /\ At(servers, sid).alive

\* C17: the clients of a peer are killed before its entity is freed, so the
\* owning server handle of every live client names a live server, and
\* begin_netburst resolves the owner of every client it emits.
OwnerLiveness ==
  /\ \A c \in Handles(clients) :
       At(clients, c).alive => Resolvable(At(clients, c).server_id)
  /\ last.op = "netsplit" =>
       \A c \in Handles(clients) :
         At(clients, c).alive => At(clients, c).server_id # last.srv
  /\ last.op = "netburst" =>
       \A i \in 1 .. Len(last.owners) : Resolvable(last.owners[i])

\* C19: the client loop of begin_netburst visits exactly the handles
\* 0 .. clients.size()-1, whatever channels.size() is.
ClientLoopRange ==
  last.op = "netburst" => last.visited = Handles(clients)

====
